---- MODULE Spec2Model ----
(***************************************************************************)
(* Model of skills/repo-dependency-analyzer/scripts/trace_dependencies.py: *)
(* the DependencyTracer resolvers, the work-list loop of                   *)
(* trace_dependencies and the printing done by main.                       *)
(*                                                                         *)
(* A path is the sequence of its segments below the filesystem root "/",   *)
(* kept as pathlib keeps it: ".." segments stay until resolve() removes    *)
(* them, "." segments are dropped by the join.  A path whose string starts *)
(* with exactly two slashes keeps them (pathlib's "//" root); such a path  *)
(* carries DSlash as its first segment.                                    *)
(***************************************************************************)
EXTENDS Integers, Sequences, FiniteSets, TLC

VARIABLES fs, focus_file, pc, focus_path, dependencies, visited, to_process,
          current_file, deps, pending, expanded, to_print, stdout, stderr,
          exit_status

vars == <<fs, focus_file, pc, focus_path, dependencies, visited, to_process,
          current_file, deps, pending, expanded, to_print, stdout, stderr,
          exit_status>>

\* Largest number of import/include statements in one repository.
MaxRefs == 2
\* Largest number of leading dots of a Python or Java reference.
MaxDots == 2

-----------------------------------------------------------------------------
(* pathlib and the filesystem                                              *)

DSlash == "//"

\* self.repo_root, already resolved
RepoRoot == <<"r">>

Front(s) == SubSeq(s, 1, Len(s) - 1)

Last(s) == s[Len(s)]

\* Path.parent: lexical, the root is its own parent
Parent(p) == IF p = <<>> \/ p = <<DSlash>> THEN p ELSE Front(p)

\* Path.name
Name(p) == IF p = <<>> \/ p = <<DSlash>> THEN "" ELSE Last(p)

\* Path / str: an absolute right operand replaces the left one
Join(p, ref) ==
    LET segs == SelectSeq(ref.segs, LAMBDA s : s # ".")
    IN  IF ref.abs THEN segs ELSE p \o segs

RECURSIVE Collapse(_, _)
Collapse(acc, rest) ==
    IF rest = <<>> THEN acc
    ELSE IF Head(rest) = ".." THEN Collapse(Parent(acc), Tail(rest))
    ELSE Collapse(Append(acc, Head(rest)), Tail(rest))

\* Path.resolve() (non-strict): ".." removed against the path built so far
Resolve(p) == Collapse(<<>>, p)

RECURSIVE Walk(_, _)
Walk(cur, rest) ==
    IF rest = <<>> THEN {cur}
    ELSE IF cur \notin fs.dirs THEN {}
    ELSE IF Head(rest) = ".." THEN Walk(Parent(cur), Tail(rest))
    ELSE IF Append(cur, Head(rest)) \in fs.dirs \cup fs.files
         THEN Walk(Append(cur, Head(rest)), Tail(rest))
    ELSE {}

\* The node the operating system finds for a path: none, or one.
Lookup(p) ==
    IF p # <<>> /\ Head(p) = DSlash THEN Walk(<<>>, Tail(p)) ELSE Walk(<<>>, p)

\* Path.exists()
Exists(p) == Lookup(p) # {}

\* Path.is_dir()
IsDir(p) == \E n \in Lookup(p) : n \in fs.dirs

\* Path.is_relative_to(other): lexical
IsRelativeTo(p, other) ==
    Len(p) >= Len(other) /\ SubSeq(p, 1, Len(other)) = other

\* Path.relative_to(other), where it does not raise
RelativeTo(p, other) == SubSeq(p, Len(other) + 1, Len(p))

\* Path(str(p) + ext) for an ext without a slash, and f'{name}.py'
WithSuffix(p, ext) ==
    IF p = <<>> \/ p = <<DSlash>> THEN Append(p, ext)
    ELSE Append(Front(p), Last(p) \o ext)

\* Path(str(p) + '/' + file)
WithIndex(p, file) == IF p = <<>> THEN <<DSlash, file>> ELSE Append(p, file)

Stems == {"a", "b", "m", "g", "h", "A", "B", "out", "sibling", "__init__",
          "util", "index", "data"}

Exts == {".py", ".js", ".jsx", ".ts", ".tsx", ".go", ".java", ".c", ".cpp",
         ".h", ".hpp", ".json"}

\* Path.suffix
Suffix(p) ==
    IF \E s \in Stems, e \in Exts : Name(p) = s \o e
    THEN CHOOSE e \in Exts : \E s \in Stems : Name(p) = s \o e
    ELSE ""

\* open() that succeeds on every regular file, whatever its permissions
CanReadAnyFile(p) == \E n \in Lookup(p) : n \in fs.files

\* open(file_path).read(): the statements of the file, when it can be read
CanRead(p) == \E n \in Lookup(p) : n \in fs.files /\ n \notin fs.unreadable

Content(p) == fs.content[CHOOSE n \in Lookup(p) : TRUE]

\* The order of str in Python on the segment names of the model.
SegOrder == <<"..", "A.java", "B.java", "__init__.py", "a.h", "a.py", "b.h",
              "b.py", "d", "data.json", "g.go", "h.go", "index.js", "m.js",
              "out.h", "out.java", "out.js", "out.py", "pkg", "r",
              "sibling.py", "util", "util.js", "util.ts", DSlash>>

SegRank(s) == CHOOSE i \in 1..Len(SegOrder) : SegOrder[i] = s

\* Path.__lt__: the parts compared as lists
RECURSIVE PathLess(_, _)
PathLess(p, q) ==
    IF q = <<>> THEN FALSE
    ELSE IF p = <<>> THEN TRUE
    ELSE IF Head(p) = Head(q) THEN PathLess(Tail(p), Tail(q))
    ELSE SegRank(Head(p)) < SegRank(Head(q))

-----------------------------------------------------------------------------
(* Extractors.  A file's text is held as the set of its import statements: *)
(*   [kind, dots, paths, names]                                            *)
(* kind: the lexical form; dots: the leading dots of a dotted name;        *)
(* paths: the quoted paths or the dotted name's segments, in source order; *)
(* names: what a Python from-import lists after "import".                  *)

PyKinds == {"py_import", "py_from"}

JsKinds == {"js_from", "js_require", "js_dynamic"}

GoKinds == {"go_import", "go_block"}

CKinds == {"c_quote", "c_angle"}

\* match.group(1) of the three Python patterns: the dotted name only
PyModules(content) ==
    {[dots |-> s.dots, segs |-> s.paths[1].segs] :
        s \in {t \in content : t.kind \in PyKinds}}

\* match.group(1) of the three JS patterns
JsPaths(content) == {s.paths[1] : s \in {t \in content : t.kind \in JsKinds}}

\* match.group(1) of the two Go patterns: the block pattern's greedy [^)]*
\* leaves the last quoted path of the block in the group
GoPaths(content) ==
    {s.paths[1] : s \in {t \in content : t.kind = "go_import"}}
    \cup {s.paths[Len(s.paths)] : s \in {t \in content : t.kind = "go_block"}}

\* match.group(1) of the Java pattern
JavaNames(content) ==
    {[dots |-> s.dots, segs |-> s.paths[1].segs] :
        s \in {t \in content : t.kind = "java_import"}}

\* match.group(1) of the two include patterns
CPaths(content) == {s.paths[1] : s \in {t \in content : t.kind \in CKinds}}

\* str.startswith('.') of a quoted path
StartsWithDot(ref) ==
    ~ref.abs /\ ref.segs # <<>> /\ Head(ref.segs) \in {".", ".."}

-----------------------------------------------------------------------------
(* Resolvers: each returns no path or one path.                            *)

\* module.split('.')
PySplit(module) ==
    [i \in 1..module.dots |-> ""]
        \o (IF module.segs = <<>> THEN <<"">> ELSE module.segs)

PyLevel(module) == Len(SelectSeq(PySplit(module), LAMBDA p : p = ""))

PyModuleParts(module) == SelectSeq(PySplit(module), LAMBDA p : p # "")

RECURSIVE Ascend(_, _)
Ascend(p, n) == IF n <= 0 THEN p ELSE Ascend(Parent(p), n - 1)

\* target of a relative import
PyTarget(module, file) ==
    Ascend(Parent(file), PyLevel(module) - 1) \o PyModuleParts(module)

PyRelative(module, file) ==
    LET target == PyTarget(module, file)
        init == Append(target, "__init__.py")
        file_py == Append(Parent(target), Name(target) \o ".py")
    IN  IF Exists(init) THEN {init}
        ELSE IF Exists(file_py) THEN {file_py}
        ELSE {}

\* repo_root / s for a string s that came from a dotted name by
\* replace('.', '/'): leading dots became leading slashes
DottedBase(dots) ==
    IF dots = 0 THEN RepoRoot ELSE IF dots = 2 THEN <<DSlash>> ELSE <<>>

PyAbsolute(module) ==
    LET package_init ==
            Append(DottedBase(module.dots) \o module.segs, "__init__.py")
        module_file ==
            IF module.segs = <<>> THEN Append(DottedBase(module.dots), ".py")
            ELSE WithSuffix(DottedBase(module.dots) \o module.segs, ".py")
    IN  IF Exists(package_init) THEN {package_init}
        ELSE IF Exists(module_file) THEN {module_file}
        ELSE {}

ResolvePythonModule(module, file) ==
    IF module.dots > 0 /\ PyRelative(module, file) # {}
    THEN PyRelative(module, file)
    ELSE PyAbsolute(module)

\* line 178: the suffixes probed, in order; dir: the suffix starts with '/'
JsExts ==
    <<[dir |-> FALSE, tail |-> ""], [dir |-> FALSE, tail |-> ".js"],
      [dir |-> FALSE, tail |-> ".jsx"], [dir |-> FALSE, tail |-> ".ts"],
      [dir |-> FALSE, tail |-> ".tsx"], [dir |-> TRUE, tail |-> "index.js"],
      [dir |-> TRUE, tail |-> "index.jsx"], [dir |-> TRUE, tail |-> "index.ts"],
      [dir |-> TRUE, tail |-> "index.tsx"]>>

\* line 179: Path(str(target_path) + ext)
JsCheckPath(target, ext) ==
    IF ext.dir THEN WithIndex(target, ext.tail)
    ELSE IF ext.tail = "" THEN target
    ELSE WithSuffix(target, ext.tail)

\* line 180
JsAccepts(check_path) ==
    Exists(check_path) /\ IsRelativeTo(check_path, RepoRoot)

\* lines 178-181: the first accepted candidate from the i-th suffix on
RECURSIVE JsProbe(_, _)
JsProbe(target, i) ==
    IF i > Len(JsExts) THEN {}
    ELSE IF JsAccepts(JsCheckPath(target, JsExts[i]))
         THEN {JsCheckPath(target, JsExts[i])}
    ELSE JsProbe(target, i + 1)

ResolveJsImport(import_path, file) ==
    IF StartsWithDot(import_path)
    THEN JsProbe(Resolve(Join(Parent(file), import_path)), 1)
    ELSE {}

\* line 212 without the is_relative_to test
ResolveGoImportAnyDir(import_path, file) ==
    IF StartsWithDot(import_path)
    THEN LET target_dir == Resolve(Join(Parent(file), import_path))
         IN  IF IsDir(target_dir) THEN {target_dir} ELSE {}
    ELSE {}

\* lines 206-216
ResolveGoImport(import_path, file) ==
    IF StartsWithDot(import_path)
    THEN LET target_dir == Resolve(Join(Parent(file), import_path))
         IN  IF IsDir(target_dir) /\ IsRelativeTo(target_dir, RepoRoot)
             THEN {target_dir} ELSE {}
    ELSE {}

ResolveJavaImport(import_path) ==
    LET full_path ==
            WithSuffix(DottedBase(import_path.dots) \o import_path.segs,
                       ".java")
    IN  IF Exists(full_path) THEN {full_path} ELSE {}

\* lines 266-273 with the exists() test of line 272 left out
ResolveCIncludeUnprobed(include_path, file) ==
    LET rel_path == Resolve(Join(Parent(file), include_path))
        root_path == Join(RepoRoot, include_path)
    IN  IF Exists(rel_path) /\ IsRelativeTo(rel_path, RepoRoot)
        THEN {rel_path}
        ELSE {root_path}

\* lines 263-275
ResolveCInclude(include_path, file) ==
    LET rel_path == Resolve(Join(Parent(file), include_path))
        root_path == Join(RepoRoot, include_path)
    IN  IF Exists(rel_path) /\ IsRelativeTo(rel_path, RepoRoot)
        THEN {rel_path}
        ELSE IF Exists(root_path) THEN {root_path}
        ELSE {}

ParsePythonImports(content, file) ==
    UNION {ResolvePythonModule(m, file) : m \in PyModules(content)}

ParseJsImports(content, file) ==
    UNION {ResolveJsImport(r, file) : r \in JsPaths(content)}

ParseGoImports(content, file) ==
    UNION {ResolveGoImport(r, file) :
              r \in {g \in GoPaths(content) : StartsWithDot(g)}}

ParseJavaImports(content, file) ==
    UNION {ResolveJavaImport(n) : n \in JavaNames(content)}

ParseCIncludes(content, file) ==
    UNION {ResolveCInclude(r, file) : r \in CPaths(content)}

\* lines 66-89 with a file of any other suffix handed to the JS parser
GetDirectDependenciesJsDefault(file) ==
    IF ~CanRead(file) THEN {}
    ELSE LET content == Content(file)
             ext == Suffix(file)
         IN  IF ext = ".py" THEN ParsePythonImports(content, file)
             ELSE IF ext = ".go" THEN ParseGoImports(content, file)
             ELSE IF ext = ".java" THEN ParseJavaImports(content, file)
             ELSE IF ext \in {".c", ".cpp", ".h", ".hpp"}
                  THEN ParseCIncludes(content, file)
             ELSE ParseJsImports(content, file)

\* lines 66-89 with a directory expanded to the files it holds
GetDirectDependenciesListingDirs(file) ==
    IF IsDir(file) THEN {f \in fs.files : Parent(f) \in Lookup(file)}
    ELSE IF ~CanRead(file) THEN {}
    ELSE LET content == Content(file)
             ext == Suffix(file)
         IN  IF ext = ".py" THEN ParsePythonImports(content, file)
             ELSE IF ext \in {".js", ".jsx", ".ts", ".tsx"}
                  THEN ParseJsImports(content, file)
             ELSE IF ext = ".go" THEN ParseGoImports(content, file)
             ELSE IF ext = ".java" THEN ParseJavaImports(content, file)
             ELSE IF ext \in {".c", ".cpp", ".h", ".hpp"}
                  THEN ParseCIncludes(content, file)
             ELSE {}

\* lines 66-89
GetDirectDependencies(file) ==
    IF ~CanRead(file) THEN {}
    ELSE LET content == Content(file)
             ext == Suffix(file)
         IN  IF ext = ".py" THEN ParsePythonImports(content, file)
             ELSE IF ext \in {".js", ".jsx", ".ts", ".tsx"}
                  THEN ParseJsImports(content, file)
             ELSE IF ext = ".go" THEN ParseGoImports(content, file)
             ELSE IF ext = ".java" THEN ParseJavaImports(content, file)
             ELSE IF ext \in {".c", ".cpp", ".h", ".hpp"}
                  THEN ParseCIncludes(content, file)
             ELSE {}

-----------------------------------------------------------------------------
(* The repositories the model runs on.  Each family fixes a directory     *)
(* skeleton, the source files that carry statements, the statements they   *)
(* may carry, the files and directories that may or may not exist, and the *)
(* focus arguments.                                                        *)

Rel(segs) == [abs |-> FALSE, segs |-> segs]

Abs(segs) == [abs |-> TRUE, segs |-> segs]

Stmt(kind, dots, paths, names) ==
    [kind |-> kind, dots |-> dots, paths |-> paths, names |-> names]

Quoted(kind, ref) == Stmt(kind, 0, <<ref>>, <<>>)

Dotted(kind, dots, segs, names) == Stmt(kind, dots, <<Rel(segs)>>, names)

Extra(dirs, files) == [dirs |-> dirs, files |-> files]

RECURSIVE SubsetsUpTo(_, _)
SubsetsUpTo(S, n) ==
    IF n = 0 THEN {{}}
    ELSE LET prev == SubsetsUpTo(S, n - 1)
         IN  prev \cup {T \cup {x} : T \in prev, x \in S}

CFamily ==
    [dirs |-> {<<>>, <<"r">>, <<"r", "d">>},
     src |-> {<<"r", "a.h">>, <<"r", "d", "b.h">>},
     extras |-> {Extra({}, F) : F \in SUBSET {<<"out.h">>}},
     unread |-> {{}, {<<"r", "d", "b.h">>}},
     stmts |-> {Quoted("c_quote", Rel(<<"d", "b.h">>)),
                Quoted("c_quote", Rel(<<"d", "..", "a.h">>)),
                Quoted("c_quote", Rel(<<"..", "a.h">>)),
                Quoted("c_quote", Rel(<<"..", "out.h">>)),
                Quoted("c_quote", Abs(<<"out.h">>)),
                Quoted("c_quote", Rel(<<"missing.h">>)),
                Quoted("c_angle", Rel(<<"a.h">>))},
     focuses |-> {Rel(<<"a.h">>), Rel(<<"d", "b.h">>), Rel(<<"d", "..", "a.h">>),
                  Rel(<<"missing.h">>), Rel(<<"..", "out.h">>), Rel(<<"d">>)}]

PyFamily ==
    [dirs |-> {<<>>, <<"r">>, <<"r", "d">>},
     src |-> {<<"r", "a.py">>, <<"r", "d", "b.py">>},
     extras |-> {Extra({}, F) :
                    F \in SUBSET {<<"r", "d", "sibling.py">>,
                                  <<"r", "__init__.py">>, <<"out.py">>}},
     unread |-> {{}},
     stmts |-> {Dotted("py_from", k, <<>>, <<"sibling">>) : k \in 1..MaxDots}
               \cup {Dotted("py_from", k, <<"sibling">>, <<"x">>) :
                        k \in 1..MaxDots}
               \cup {Dotted("py_from", k, <<"out">>, <<"x">>) :
                        k \in 1..MaxDots}
               \cup {Dotted("py_import", 0, <<"a">>, <<>>),
                     Dotted("py_import", 0, <<"d", "b">>, <<>>),
                     Dotted("py_import", 0, <<"os">>, <<>>)},
     focuses |-> {Rel(<<"a.py">>), Rel(<<"d", "b.py">>)}]

JsFamily ==
    [dirs |-> {<<>>, <<"r">>},
     src |-> {<<"r", "m.js">>},
     extras |-> {Extra(D, F \cup G) :
                    D \in {{<<"r", "util">>}},
                    F \in SUBSET {<<"r", "util", "index.js">>},
                    G \in SUBSET {<<"r", "util.ts">>, <<"r", "util.js">>,
                                  <<"r", "data.json">>, <<"out.js">>}}
                \cup {Extra({}, G) :
                         G \in SUBSET {<<"r", "util.ts">>, <<"r", "util.js">>,
                                       <<"r", "data.json">>, <<"out.js">>}},
     unread |-> {{}},
     stmts |-> {Quoted("js_from", Rel(<<".", "util">>)),
                Quoted("js_require", Rel(<<".", "util">>)),
                Quoted("js_dynamic", Rel(<<".", "util">>)),
                Quoted("js_from", Rel(<<"util">>)),
                Quoted("js_from", Rel(<<"..", "out">>)),
                Quoted("js_from", Rel(<<".", "data.json">>)),
                Quoted("js_require", Rel(<<".", "m">>))},
     focuses |-> {Rel(<<"m.js">>)}]

JavaFamily ==
    [dirs |-> {<<>>, <<"r">>, <<"r", "d">>},
     src |-> {<<"r", "A.java">>, <<"r", "d", "B.java">>},
     extras |-> {Extra({}, F) : F \in SUBSET {<<"out.java">>}},
     unread |-> {{}},
     stmts |-> {Dotted("java_import", 0, <<"A">>, <<>>),
                Dotted("java_import", 0, <<"d", "B">>, <<>>),
                Dotted("java_import", 0, <<"java", "util", "List">>, <<>>)}
               \cup {Dotted("java_import", k, <<"out">>, <<>>) :
                        k \in 1..MaxDots},
     focuses |-> {Rel(<<"A.java">>), Rel(<<"d", "B.java">>)}]

GoFamily ==
    [dirs |-> {<<>>, <<"r">>, <<"r", "d">>},
     src |-> {<<"r", "g.go">>, <<"r", "d", "h.go">>},
     extras |-> {Extra(D, {}) : D \in SUBSET {<<"pkg">>}},
     unread |-> {{}},
     stmts |-> {Quoted("go_import", Rel(<<".", "d">>)),
                Quoted("go_import", Rel(<<"..", "d">>)),
                Quoted("go_import", Rel(<<"..", "pkg">>)),
                Quoted("go_import", Rel(<<"fmt">>)),
                Stmt("go_block", 0, <<Rel(<<".", "d">>), Rel(<<"fmt">>)>>, <<>>),
                Stmt("go_block", 0, <<Rel(<<"fmt">>), Rel(<<".", "d">>)>>, <<>>)},
     focuses |-> {Rel(<<"g.go">>), Rel(<<"d", "h.go">>)}]

\* a JS file next to a file of a type without an extractor, which carries
\* text that the JS patterns would match
JsonFamily ==
    [dirs |-> {<<>>, <<"r">>},
     src |-> {<<"r", "m.js">>, <<"r", "data.json">>},
     extras |-> {Extra({}, F) : F \in SUBSET {<<"r", "util.js">>}},
     unread |-> {{}},
     stmts |-> {Quoted("js_from", Rel(<<".", "data.json">>)),
                Quoted("js_require", Rel(<<".", "util">>)),
                Quoted("js_require", Rel(<<".", "m">>))},
     focuses |-> {Rel(<<"m.js">>), Rel(<<"data.json">>)}]

Families == {CFamily, PyFamily, JsFamily, JavaFamily, GoFamily, JsonFamily}

\* The texts of the source files: at most MaxRefs statements in all, and
\* at most one block import in a file (the text is held as a set: what the
\* block pattern does across two blocks depends on their order).
Contents(F) ==
    {c \in {[f \in F.src |-> {pr[2] : pr \in {q \in P : q[1] = f}}] :
               P \in SubsetsUpTo(F.src \X F.stmts, MaxRefs)} :
        \A f \in F.src :
            Cardinality({s \in c[f] : s.kind = "go_block"}) <= 1}

Repository(F, x, c, u) ==
    [dirs |-> F.dirs \cup x.dirs,
     files |-> F.src \cup x.files,
     content |-> [f \in F.src \cup x.files |-> IF f \in F.src THEN c[f] ELSE {}],
     unreadable |-> u]

-----------------------------------------------------------------------------
(* main and trace_dependencies                                             *)

Line(kind, path, n) == [line |-> kind, path |-> path, n |-> n]

InitOn(families) ==
    /\ \E F \in families :
          \E x \in F.extras, c \in Contents(F), u \in F.unread, f \in F.focuses :
             /\ fs = Repository(F, x, c, u)
             /\ focus_file = f
    /\ pc = "main"
    /\ focus_path = <<>>
    /\ dependencies = {}
    /\ visited = {}
    /\ to_process = <<>>
    /\ current_file = <<>>
    /\ deps = {}
    /\ pending = {}
    /\ expanded = <<>>
    /\ to_print = {}
    /\ stdout = <<>>
    /\ stderr = <<>>
    /\ exit_status = -1

Init == InitOn(Families)

\* line 59
ShouldAdd(dep) == dep \notin dependencies /\ dep # focus_path

\* the test of line 61 turned round
ShouldPushInverted(dep) == dep \in visited

\* line 61
ShouldPush(dep) == dep \notin visited

\* to_process[-1] in place of to_process.pop(): the element stays
PoppedKept(list) == list

\* line 48: list.pop() leaves the list without its last element
Popped(list) == Front(list)

\* line 53 left out
MarkVisitedForgotten(file) == visited

\* line 53
MarkVisited(file) == visited \cup {file}

\* the focus path put on the work list twice
InitialWorkListTwice(path) == <<path, path>>

\* line 45
InitialWorkList(path) == <<path>>

\* lines 39-45 of trace_dependencies; the FileNotFoundError goes to lines
\* 305-307 of main
TraceStart ==
    /\ pc = "main"
    /\ LET path == Resolve(Join(RepoRoot, focus_file))
       IN  IF ~Exists(path)
           THEN /\ stderr' = Append(stderr, Line("error", <<>>, 0))
                /\ exit_status' = 1
                /\ pc' = "exit"
                /\ UNCHANGED <<focus_path, to_process>>
           ELSE /\ focus_path' = path
                /\ to_process' = InitialWorkList(path)
                /\ pc' = "while"
                /\ UNCHANGED <<stderr, exit_status>>
    /\ UNCHANGED <<fs, focus_file, dependencies, visited, current_file, deps,
                   pending, expanded, to_print, stdout>>

\* lines 47-56: one pass of the while loop up to the for loop
LoopPop ==
    /\ pc = "while"
    /\ to_process # <<>>
    /\ current_file' = Last(to_process)
    /\ to_process' = Popped(to_process)
    /\ IF Last(to_process) \in visited
       THEN UNCHANGED <<pc, visited, deps, pending, expanded>>
       ELSE /\ visited' = MarkVisited(Last(to_process))
            /\ deps' = GetDirectDependencies(Last(to_process))
            /\ pending' = deps'
            /\ expanded' = Append(expanded, Last(to_process))
            /\ pc' = "for"
    /\ UNCHANGED <<fs, focus_file, focus_path, dependencies, to_print, stdout,
                   stderr, exit_status>>

\* lines 58-62: the for loop's body for one element of the set deps
ForDep ==
    /\ pc = "for"
    /\ \E dep \in pending :
          /\ pending' = pending \ {dep}
          /\ IF ShouldAdd(dep)
             THEN /\ dependencies' = dependencies \cup {dep}
                  /\ to_process' = IF ShouldPush(dep)
                                   THEN Append(to_process, dep)
                                   ELSE to_process
             ELSE UNCHANGED <<dependencies, to_process>>
    /\ UNCHANGED <<fs, focus_file, pc, focus_path, visited, current_file, deps,
                   expanded, to_print, stdout, stderr, exit_status>>

\* line 58, deps exhausted: back to the while test
ForDone ==
    /\ pc = "for"
    /\ pending = {}
    /\ pc' = "while"
    /\ UNCHANGED <<fs, focus_file, focus_path, dependencies, visited,
                   to_process, current_file, deps, pending, expanded, to_print,
                   stdout, stderr, exit_status>>

\* line 64, then lines 292-300 of main: the header, the rule and, for an
\* empty result, the "No dependencies found" line
TraceReturn ==
    /\ pc = "while"
    /\ to_process = <<>>
    /\ stdout' = stdout \o <<Line("header", focus_file.segs, 0),
                              Line("rule", <<>>, 0)>>
                        \o (IF dependencies = {}
                            THEN <<Line("none", <<>>, 0)>> ELSE <<>>)
    /\ to_print' = dependencies
    /\ pc' = "print"
    /\ UNCHANGED <<fs, focus_file, focus_path, dependencies, visited,
                   to_process, current_file, deps, pending, expanded, stderr,
                   exit_status>>

\* lines 296-298: the next dependency in sorted order; relative_to raises
\* ValueError for a path not below repo_root, caught at lines 308-310
PrintDep ==
    /\ pc = "print"
    /\ to_print # {}
    /\ LET dep == CHOOSE p \in to_print :
                      \A q \in to_print \ {p} : PathLess(p, q)
       IN  IF IsRelativeTo(dep, RepoRoot)
           THEN /\ stdout' = Append(stdout,
                                    Line("dep", RelativeTo(dep, RepoRoot), 0))
                /\ to_print' = to_print \ {dep}
                /\ UNCHANGED <<pc, stderr, exit_status>>
           ELSE /\ stderr' = Append(stderr, Line("unexpected", dep, 0))
                /\ exit_status' = 1
                /\ pc' = "exit"
                /\ UNCHANGED <<stdout, to_print>>
    /\ UNCHANGED <<fs, focus_file, focus_path, dependencies, visited,
                   to_process, current_file, deps, pending, expanded>>

\* lines 302-303, then the normal end of main
PrintTotal ==
    /\ pc = "print"
    /\ to_print = {}
    /\ stdout' = stdout \o <<Line("rule", <<>>, 0),
                              Line("total", <<>>, Cardinality(dependencies))>>
    /\ exit_status' = 0
    /\ pc' = "exit"
    /\ UNCHANGED <<fs, focus_file, focus_path, dependencies, visited,
                   to_process, current_file, deps, pending, expanded, to_print,
                   stderr>>

Next ==
    \/ TraceStart
    \/ LoopPop
    \/ ForDep
    \/ ForDone
    \/ TraceReturn
    \/ PrintDep
    \/ PrintTotal

Spec == Init /\ [][Next]_vars

\* main is one sequential program that runs to its end: no step of it
\* waits for anything, so a step that can be taken is taken.
FairFamilies ==
    {[CFamily EXCEPT !.unread = {{}},
                     !.focuses = {Rel(<<"a.h">>), Rel(<<"d", "b.h">>)}],
     JavaFamily}

FairInit == InitOn(FairFamilies)

FairSpec == FairInit /\ [][Next]_vars /\ WF_vars(Next)

-----------------------------------------------------------------------------
(* Properties                                                              *)

\* A path names a regular file.
IsFile(p) == \E n \in Lookup(p) : n \in fs.files

RECURSIVE Closure(_)
Closure(S) ==
    LET more == S \cup UNION {GetDirectDependencies(p) : p \in S}
    IN  IF more = S THEN S ELSE Closure(more)

\* The paths one or more direct-dependency steps away from a path.
ReachableFrom(p) == Closure(GetDirectDependencies(p))

\* C1: at every point of trace_dependencies and in the returned set, no
\* element of 'dependencies' denotes the focus file, however it is spelled.
C1_NoFocusInResult ==
    \A d \in dependencies : Lookup(d) # Lookup(focus_path)

\* C2: every path of the returned set lies within the repository root.
C2_ResultWithinRoot ==
    pc = "print" =>
        \A d \in dependencies : \A n \in Lookup(d) : IsRelativeTo(n, RepoRoot)

\* C3: the returned set is exactly the set of paths reachable from the focus
\* file by one or more direct-dependency steps, without the focus file,
\* whatever the order in which the elements of deps were iterated.
C3_ResultIsClosure ==
    pc = "print" => dependencies = ReachableFrom(focus_path) \ {focus_path}

C3_Witness ==
    /\ pc = "print"
    /\ \E d \in dependencies : d \notin GetDirectDependencies(focus_path)

\* C4: the work-list loop always reaches an empty work list and returns,
\* also on cyclic and self-importing repositories.
C4_LoopTerminates == (pc = "while") ~> (pc = "print")

C4_Witness ==
    /\ pc = "print"
    /\ \E p \in visited : p \in ReachableFrom(p)

\* C5: every call of _get_direct_dependencies is for a path not yet in
\* 'visited' and not expanded before, the path is in 'visited' afterwards,
\* and 'visited' never loses an element.
C5_ExpandedOnce ==
    [][/\ visited \subseteq visited'
       /\ expanded' # expanded =>
            /\ Front(expanded') = expanded
            /\ Last(expanded') \notin visited
            /\ Last(expanded') \in visited'
            /\ \A i \in 1..Len(expanded) : expanded[i] # Last(expanded')]_vars

C5_Witness ==
    /\ pc = "print"
    /\ Len(expanded) >= 2
    /\ \E i \in 2..Len(expanded) :
          focus_path \in GetDirectDependencies(expanded[i])

\* The focus argument names a regular file inside the repository root.
FocusIsFileUnderRoot ==
    \E n \in Lookup(Join(RepoRoot, focus_file)) :
        n \in fs.files /\ IsRelativeTo(n, RepoRoot)

\* C6: when the focus path does not denote an existing file under the
\* repository root, the run ends with the not-found error: nothing on
\* standard output, the error on the error stream, a non-zero status.
C6_NotFoundUnlessFileUnderRoot ==
    (pc = "exit" /\ ~FocusIsFileUnderRoot) =>
        /\ exit_status # 0
        /\ stdout = <<>>
        /\ stderr # <<>>
        /\ expanded = <<>>

\* C7: a run of main that ends with a non-zero status has written nothing
\* of the dependency listing to standard output.
C7_ListingAllOrNothing ==
    (pc = "exit" /\ exit_status # 0) => stdout = <<>>

FromDotImportSibling == Dotted("py_from", 1, <<>>, <<"sibling">>)

\* C8: `from . import sibling` resolves to sibling.py in the directory of
\* the referencing file when that file exists, and to nothing otherwise.
C8_FromDotImportSibling ==
    (/\ pc = "for"
     /\ Suffix(current_file) = ".py"
     /\ CanRead(current_file)
     /\ FromDotImportSibling \in Content(current_file)) =>
        ParsePythonImports({FromDotImportSibling}, current_file)
            = (IF Exists(Append(Parent(current_file), "sibling.py"))
               THEN {Append(Parent(current_file), "sibling.py")}
               ELSE {})

\* C9: for a reference with k >= 1 leading dots the target is the
\* referencing file's directory ascended k-1 times, joined with the
\* segments that follow the dots.
C9_DotsAscendKMinusOne ==
    (pc = "for" /\ Suffix(current_file) = ".py" /\ CanRead(current_file)) =>
        \A s \in Content(current_file) :
            (s.kind = "py_from" /\ s.dots >= 1) =>
                \A m \in PyModules({s}) :
                    PyTarget(m, current_file)
                        = Ascend(Parent(current_file), s.dots - 1)
                              \o s.paths[1].segs

\* The first candidate, from the i-th suffix on, that is a file in the root.
RECURSIVE FirstExistingFile(_, _)
FirstExistingFile(target, i) ==
    IF i > Len(JsExts) THEN {}
    ELSE IF /\ IsFile(JsCheckPath(target, JsExts[i]))
            /\ IsRelativeTo(JsCheckPath(target, JsExts[i]), RepoRoot)
         THEN {JsCheckPath(target, JsExts[i])}
    ELSE FirstExistingFile(target, i + 1)

\* C10: a relative JS/TS import resolves to the first existing file in the
\* order exact, .js, .jsx, .ts, .tsx, /index.js, /index.jsx, /index.ts,
\* /index.tsx (util.ts when util.ts and util/index.js both exist); a
\* reference that does not start with '.' resolves to nothing.
C10_JsFirstExistingFile ==
    (/\ pc = "for"
     /\ Suffix(current_file) \in {".js", ".jsx", ".ts", ".tsx"}
     /\ CanRead(current_file)) =>
        \A ref \in JsPaths(Content(current_file)) :
            ResolveJsImport(ref, current_file)
                = (IF StartsWithDot(ref)
                   THEN FirstExistingFile(
                            Resolve(Join(Parent(current_file), ref)), 1)
                   ELSE {})

CExts == {".c", ".cpp", ".h", ".hpp"}

\* The node a path denotes lies in the repository root.
DenotesInRoot(p) == \A n \in Lookup(p) : IsRelativeTo(n, RepoRoot)

\* The two-step probe with the root test in both steps.
RootedCInclude(include_path, file) ==
    LET rel_path == Resolve(Join(Parent(file), include_path))
        root_path == Join(RepoRoot, include_path)
    IN  IF Exists(rel_path) /\ DenotesInRoot(rel_path) THEN {rel_path}
        ELSE IF Exists(root_path) /\ DenotesInRoot(root_path) THEN {root_path}
        ELSE {}

\* C11: a C/C++ include is probed relative to the including file's directory
\* and then relative to the repository root, the first existing match wins,
\* and in both steps a target outside the repository root is rejected even
\* if it exists.
C11_CIncludeRootedProbe ==
    (pc = "for" /\ Suffix(current_file) \in CExts /\ CanRead(current_file)) =>
        \A ref \in CPaths(Content(current_file)) :
            ResolveCInclude(ref, current_file)
                = RootedCInclude(ref, current_file)

\* The directory a Go import path names, seen from the importing file.
GoTarget(ref, file) == Resolve(Join(Parent(file), ref))

\* C12: a Go import resolves only when its path starts with '.', and then
\* only to an existing directory within the repository root, the directory
\* itself being the dependency; a module-path import such as "fmt" adds
\* nothing.
C12_GoImportRelativeDirInRoot ==
    (pc = "for" /\ Suffix(current_file) = ".go" /\ CanRead(current_file)) =>
        /\ \A d \in deps :
              /\ d \in fs.dirs
              /\ IsRelativeTo(d, RepoRoot)
              /\ \E s \in Content(current_file) :
                    \E i \in 1..Len(s.paths) :
                       /\ StartsWithDot(s.paths[i])
                       /\ d = GoTarget(s.paths[i], current_file)
        /\ \A s \in Content(current_file) :
              s.kind = "go_import" =>
                  ParseGoImports({s}, current_file)
                      = (IF /\ StartsWithDot(s.paths[1])
                            /\ GoTarget(s.paths[1], current_file) \in fs.dirs
                            /\ IsRelativeTo(GoTarget(s.paths[1], current_file),
                                            RepoRoot)
                         THEN {GoTarget(s.paths[1], current_file)}
                         ELSE {})

C12_Witness ==
    /\ pc = "for"
    /\ Suffix(current_file) = ".go"
    /\ deps # {}
    /\ \E s \in Content(current_file) :
          /\ s.kind = "go_import"
          /\ StartsWithDot(s.paths[1])
          /\ IsDir(GoTarget(s.paths[1], current_file))
          /\ ~IsRelativeTo(GoTarget(s.paths[1], current_file), RepoRoot)

\* open() or read() of the path raises: a directory, or a file without
\* read permission.
Unreadable(p) == \A n \in Lookup(p) : n \in fs.dirs \cup fs.unreadable

\* C13: a file of the work list that cannot be opened or read is expanded
\* to zero direct dependencies; the dependencies found so far are kept, the
\* loop goes on with the rest of the work list, and no error leaves
\* trace_dependencies.
C13_UnreadableHasNoDependencies ==
    [][/\ (expanded' # expanded /\ Unreadable(Last(expanded'))) =>
            /\ deps' = {}
            /\ pending' = {}
            /\ dependencies' = dependencies
            /\ to_process' = Front(to_process)
            /\ pc' = "for"
            /\ stderr' = stderr
            /\ exit_status' = exit_status
       /\ (pc \in {"while", "for"}) =>
            /\ pc' \in {"while", "for", "print"}
            /\ dependencies \subseteq dependencies'
            /\ stderr' = stderr]_vars

C13_Witness ==
    /\ pc = "print"
    /\ dependencies # {}
    /\ \E i \in 1..(Len(expanded) - 1) :
          /\ expanded[i] \in fs.unreadable
          /\ expanded[i] \in dependencies

\* Every path the resolver of the statement's language probes is absent.
CandidatesAbsent(s, file) ==
    IF s.kind \in CKinds
    THEN /\ ~Exists(Resolve(Join(Parent(file), s.paths[1])))
         /\ ~Exists(Join(RepoRoot, s.paths[1]))
    ELSE IF s.kind = "java_import"
    THEN ~Exists(WithSuffix(DottedBase(s.dots) \o s.paths[1].segs, ".java"))
    ELSE IF s.kind \in JsKinds
    THEN /\ StartsWithDot(s.paths[1])
         /\ \A i \in 1..Len(JsExts) :
               ~Exists(JsCheckPath(Resolve(Join(Parent(file), s.paths[1])),
                                   JsExts[i]))
    ELSE IF s.kind = "go_import"
    THEN /\ StartsWithDot(s.paths[1])
         /\ ~Exists(Resolve(Join(Parent(file), s.paths[1])))
    ELSE IF s.kind = "py_import"
    THEN /\ ~Exists(Append(RepoRoot \o s.paths[1].segs, "__init__.py"))
         /\ ~Exists(WithSuffix(RepoRoot \o s.paths[1].segs, ".py"))
    ELSE FALSE

\* What the extractor of the file's language makes of a text.
Extracted(content, file) ==
    IF Suffix(file) = ".py" THEN ParsePythonImports(content, file)
    ELSE IF Suffix(file) \in {".js", ".jsx", ".ts", ".tsx"}
         THEN ParseJsImports(content, file)
    ELSE IF Suffix(file) = ".go" THEN ParseGoImports(content, file)
    ELSE IF Suffix(file) = ".java" THEN ParseJavaImports(content, file)
    ELSE IF Suffix(file) \in CExts THEN ParseCIncludes(content, file)
    ELSE {}

SupportedExts == {".py", ".js", ".jsx", ".ts", ".tsx", ".go", ".java"} \cup CExts

\* A regular file of a type that has no extractor.
Unsupported(p) == IsFile(p) /\ Suffix(p) \notin SupportedExts

\* C15: a referenced file whose extension has no extractor (a .json file
\* matched exactly by a relative JS import) is in the result, and its
\* expansion adds no path to the result or to the work list.
C15_UnsupportedIsLeaf ==
    /\ (pc = "for" /\ Unsupported(current_file)) => deps = {} /\ pending = {}
    /\ pc = "print" =>
          \A i \in 1..Len(expanded) :
             \A d \in Extracted(Content(expanded[i]), expanded[i]) :
                (CanRead(expanded[i]) /\ Unsupported(d) /\ d # focus_path) =>
                    /\ d \in dependencies
                    /\ d \in visited
                    /\ dependencies \subseteq
                          Closure(GetDirectDependencies(focus_path))

C15_Witness ==
    /\ pc = "print"
    /\ \E d \in dependencies :
          /\ Unsupported(d)
          /\ ParseJsImports(Content(d), d) \ (dependencies \cup {focus_path}) # {}

\* C16: of a block import `import ( "p1" ... "pn" )` every quoted path is a
\* reference candidate, so every relative one that names a directory within
\* the repository root is among the file's direct dependencies.
C16_GoBlockEveryPath ==
    (pc = "for" /\ Suffix(current_file) = ".go" /\ CanRead(current_file)) =>
        \A s \in Content(current_file) :
            s.kind = "go_block" =>
                \A i \in 1..Len(s.paths) :
                    ResolveGoImport(s.paths[i], current_file) \subseteq deps

\* C17: throughout the loop the work list holds no path twice and no path
\* of 'visited' (the skip of lines 50-51 is never taken), every path of the
\* work list or of 'visited' is the focus path or in 'dependencies'; at
\* return 'visited' is 'dependencies' plus the focus path.
C17_WorkListInvariant ==
    /\ \A i, j \in 1..Len(to_process) :
          i # j => to_process[i] # to_process[j]
    /\ \A i \in 1..Len(to_process) :
          /\ to_process[i] \notin visited
          /\ to_process[i] \in dependencies \cup {focus_path}
    /\ visited \subseteq dependencies \cup {focus_path}
    /\ pc = "print" => visited = dependencies \cup {focus_path}

C17_Witness ==
    /\ pc = "for"
    /\ to_process # <<>>
    /\ \E d \in pending : d \in visited

\* The direct dependencies of a path when a directory has none.
LeafStep(p) == IF IsDir(p) THEN {} ELSE GetDirectDependencies(p)

RECURSIVE LeafClosure(_)
LeafClosure(S) ==
    LET more == S \cup UNION {LeafStep(p) : p \in S}
    IN  IF more = S THEN S ELSE LeafClosure(more)

\* C18: a Go package directory reported as a dependency is a leaf: it is
\* popped and marked visited, reading it yields no dependencies, and no file
\* inside it, nor anything such a file imports, enters the result through
\* it.
C18_GoDirectoryIsLeaf ==
    /\ (pc = "for" /\ IsDir(current_file)) =>
          /\ current_file \in visited
          /\ deps = {}
          /\ pending = {}
    /\ pc = "print" =>
          /\ \A d \in dependencies : IsDir(d) => d \in visited
          /\ dependencies = LeafClosure(LeafStep(focus_path)) \ {focus_path}

C18_Witness ==
    /\ pc = "print"
    /\ Suffix(focus_path) = ".go"
    /\ \E d \in dependencies :
          /\ IsDir(d)
          /\ \E i \in 1..Len(expanded) : expanded[i] = d
          /\ \E f \in fs.files :
                /\ Parent(f) = d
                /\ GetDirectDependencies(f) # {}
                /\ f \notin dependencies

====
